---- MODULE Spec2Model ----
(***************************************************************************)
(* Disk-Scheduling: the six scheduling policies of src/lib/algorithms.ts   *)
(* and the playback / configuration state of                               *)
(* src/components/DiskScheduler.tsx.                                       *)
(*                                                                         *)
(* Times are exact rationals scaled by TimeScale (1 ms = 36000 units), so  *)
(* (diff / 360) * 8.33 ms is diff * 833 units; floating-point rounding of  *)
(* the JavaScript numbers is not modelled.                                 *)
(***************************************************************************)
EXTENDS Integers, Sequences, FiniteSets, TLC

VARIABLES
    initialHead,    \* useState<number>(50)
    diskSize,       \* useState<number>(200)
    requests,       \* useState<DiskRequest[]>(DEFAULT_REQUESTS)
    direction,      \* useState<'left' | 'right'>('right')
    isPlaying,      \* useState(false)
    currentStep,    \* useState(0)
    playbackSpeed,  \* useState(1), kept in halves: 1 is 0.5x, 2 is 1x, ...
    soloAlgo,       \* useState<string | null>(null), null written "null"
    maxSteps,       \* useMemo: the longest sequence of the six Results
    timer,          \* the timeout the playback effect has pending
    now,            \* the value Date.now() returns
    ran,            \* engine harness: how many policies have been computed
    out             \* engine harness: their Results, in ALGORITHMS order

config == <<initialHead, diskSize, requests, direction>>
playback == <<isPlaying, currentStep, playbackSpeed, soloAlgo, maxSteps, timer>>
harness == <<ran, out>>
vars == <<initialHead, diskSize, requests, direction, isPlaying, currentStep,
          playbackSpeed, soloAlgo, maxSteps, timer, now, ran, out>>

----------------------------------------------------------------------------
(* Bounds of the engine harness *)

MaxDisk == 4
MaxReqs == 3
SectorStrides == {45, 200}

----------------------------------------------------------------------------
(* src/lib/algorithms.ts *)

SEEK_TIME_PER_TRACK == 2
ROTATION_SPEED_MS == 833
TimeScale == 36000

Abs(x) == IF x < 0 THEN -x ELSE x

Max(a, b) == IF a >= b THEN a ELSE b

Min(a, b) == IF a <= b THEN a ELSE b

\* Reverse with the reversal forgotten
ReverseOmitted(s) == s

Reverse(s) == [i \in 1..Len(s) |-> s[Len(s) + 1 - i]]

\* Array.prototype.sort with comparator sign * (a.cylinder - b.cylinder);
\* the sort is stable: equal cylinders keep their relative order.
RECURSIVE InsertByCylinder(_, _, _)
InsertByCylinder(sorted, r, sign) ==
    IF sorted = <<>> THEN <<r>>
    ELSE IF sign * (sorted[Len(sorted)].cylinder - r.cylinder) <= 0
         THEN Append(sorted, r)
         ELSE Append(InsertByCylinder(SubSeq(sorted, 1, Len(sorted) - 1), r, sign),
                     sorted[Len(sorted)])

RECURSIVE SortByCylinder(_, _)
SortByCylinder(s, sign) ==
    IF s = <<>> THEN <<>>
    ELSE InsertByCylinder(SortByCylinder(SubSeq(s, 1, Len(s) - 1), sign),
                          s[Len(s)], sign)

\* RotationDegrees turning the platter backwards instead of once more round
RotationDegreesBackwards(currentSector, targetSector) ==
    Abs(targetSector - currentSector)

\* degrees the platter turns, before the scaling by ROTATION_SPEED_MS / 360
RotationDegrees(currentSector, targetSector) ==
    LET diff == targetSector - currentSector
    IN  IF diff < 0 THEN diff + 360 ELSE diff

calculateRotationalDelay(currentSector, targetSector) ==
    RotationDegrees(currentSector, targetSector) * ROTATION_SPEED_MS

StartStep(head) == [id |-> <<"start", 0, 0>>, cylinder |-> head, sector |-> 0]

\* the locals every policy function starts from
Locals(head) ==
    [currentCyl   |-> head,
     currentSec   |-> 0,
     seekCount    |-> 0,
     rotationTime |-> 0,
     sequence     |-> <<head>>,
     steps        |-> <<StartStep(head)>>]

\* Serve taking a request on the cylinder the head is on as already served
ServeSkippingRevisit(st, req) ==
    IF req.cylinder = st.currentCyl THEN st
    ELSE [currentCyl   |-> req.cylinder,
          currentSec   |-> req.sector,
          seekCount    |-> st.seekCount + Abs(req.cylinder - st.currentCyl),
          rotationTime |-> st.rotationTime
                              + calculateRotationalDelay(st.currentSec, req.sector),
          sequence     |-> Append(st.sequence, req.cylinder),
          steps        |-> Append(st.steps, req)]

\* the body of the service loop: one request is served
Serve(st, req) ==
    [currentCyl   |-> req.cylinder,
     currentSec   |-> req.sector,
     seekCount    |-> st.seekCount + Abs(req.cylinder - st.currentCyl),
     rotationTime |-> st.rotationTime
                         + calculateRotationalDelay(st.currentSec, req.sector),
     sequence     |-> Append(st.sequence, req.cylinder),
     steps        |-> Append(st.steps, req)]

\* processQueue walking the queue from its far end
RECURSIVE processQueueBackwards(_, _)
processQueueBackwards(st, queue) ==
    IF queue = <<>> THEN st
    ELSE processQueueBackwards(Serve(st, queue[Len(queue)]),
                               SubSeq(queue, 1, Len(queue) - 1))

RECURSIVE processQueue(_, _)
processQueue(st, queue) ==
    IF queue = <<>> THEN st
    ELSE processQueue(Serve(st, Head(queue)), Tail(queue))

\* Travel with the cost of the movement forgotten
TravelNoCost(st, cost, landing, entries) ==
    [st EXCEPT !.currentCyl = landing,
               !.sequence = st.sequence \o entries]

\* Travel with the entries of the movement left out of sequence
TravelNoEntry(st, cost, landing, entries) ==
    [st EXCEPT !.seekCount = st.seekCount + cost,
               !.currentCyl = landing]

\* a non-servicing head movement: only seekCount, currentCyl and sequence
Travel(st, cost, landing, entries) ==
    [st EXCEPT !.seekCount = st.seekCount + cost,
               !.currentCyl = landing,
               !.sequence = st.sequence \o entries]

\* MakeResult with the rotation left out of the operational time
MakeResultSeekOnly(st, reqs) ==
    [sequence             |-> st.sequence,
     steps                |-> st.steps,
     totalSeekCount       |-> st.seekCount,
     averageSeekTime      |-> [num |-> st.seekCount, den |-> Max(1, Len(reqs))],
     totalRotationTime    |-> st.rotationTime,
     totalOperationalTime |-> st.seekCount * SEEK_TIME_PER_TRACK * TimeScale]

\* MakeResult dividing by reqs.length itself, without Math.max(1, ...)
MakeResultDivByLength(st, reqs) ==
    [sequence             |-> st.sequence,
     steps                |-> st.steps,
     totalSeekCount       |-> st.seekCount,
     averageSeekTime      |-> [num |-> st.seekCount, den |-> Len(reqs)],
     totalRotationTime    |-> st.rotationTime,
     totalOperationalTime |-> st.seekCount * SEEK_TIME_PER_TRACK * TimeScale
                                 + st.rotationTime]

MakeResult(st, reqs) ==
    [sequence             |-> st.sequence,
     steps                |-> st.steps,
     totalSeekCount       |-> st.seekCount,
     averageSeekTime      |-> [num |-> st.seekCount, den |-> Max(1, Len(reqs))],
     totalRotationTime    |-> st.rotationTime,
     totalOperationalTime |-> st.seekCount * SEEK_TIME_PER_TRACK * TimeScale
                                 + st.rotationTime]

calculateFCFS(head, reqs) ==
    MakeResult(processQueue(Locals(head), reqs), reqs)

\* ClosestFrom with <= for <: the last of several nearest requests wins
RECURSIVE ClosestFromLastTie(_, _, _, _, _)
ClosestFromLastTie(pending, currentCyl, i, closestIdx, minCylDist) ==
    IF i > Len(pending) THEN [closestIdx |-> closestIdx, minCylDist |-> minCylDist]
    ELSE LET dist == Abs(pending[i].cylinder - currentCyl)
         IN  IF dist <= minCylDist
             THEN ClosestFromLastTie(pending, currentCyl, i + 1, i, dist)
             ELSE ClosestFromLastTie(pending, currentCyl, i + 1, closestIdx, minCylDist)

\* the inner for loop of SSTF, from index i on (1-based)
RECURSIVE ClosestFrom(_, _, _, _, _)
ClosestFrom(pending, currentCyl, i, closestIdx, minCylDist) ==
    IF i > Len(pending) THEN [closestIdx |-> closestIdx, minCylDist |-> minCylDist]
    ELSE LET dist == Abs(pending[i].cylinder - currentCyl)
         IN  IF dist < minCylDist
             THEN ClosestFrom(pending, currentCyl, i + 1, i, dist)
             ELSE ClosestFrom(pending, currentCyl, i + 1, closestIdx, minCylDist)

Closest(pending, currentCyl) ==
    ClosestFrom(pending, currentCyl, 2, 1, Abs(pending[1].cylinder - currentCyl))

\* Splice with a delete count of 2: the next element goes as well
SpliceTwo(pending, idx) ==
    SubSeq(pending, 1, idx - 1) \o SubSeq(pending, idx + 2, Len(pending))

\* Splice always taking the first element, whatever idx is
SpliceHead(pending, idx) == Tail(pending)

\* pending.splice(idx, 1): the array without its idx-th element
Splice(pending, idx) ==
    SubSeq(pending, 1, idx - 1) \o SubSeq(pending, idx + 1, Len(pending))

RECURSIVE SSTFLoop(_, _)
SSTFLoop(st, pending) ==
    IF Len(pending) = 0 THEN st
    ELSE LET c    == Closest(pending, st.currentCyl)
             next == pending[c.closestIdx]
             served == Serve(st, next)
         IN  SSTFLoop([served EXCEPT !.seekCount = st.seekCount + c.minCylDist],
                      Splice(pending, c.closestIdx))

calculateSSTF(head, reqs) ==
    MakeResult(SSTFLoop(Locals(head), reqs), reqs)

\* LeftDesc without its sort: the requests below the head in input order
LeftDescUnsorted(head, reqs) ==
    SelectSeq(reqs, LAMBDA r : r.cylinder < head)

\* LeftDesc sorted the wrong way round
LeftAsc(head, reqs) ==
    SortByCylinder(SelectSeq(reqs, LAMBDA r : r.cylinder < head), 1)

LeftDesc(head, reqs) ==
    SortByCylinder(SelectSeq(reqs, LAMBDA r : r.cylinder < head), -1)

\* RightAsc without its sort: the requests from the head on in input order
RightAscUnsorted(head, reqs) ==
    SelectSeq(reqs, LAMBDA r : r.cylinder >= head)

\* RightAsc with > for >=: a request on the head's own cylinder is lost
RightAscStrict(head, reqs) ==
    SortByCylinder(SelectSeq(reqs, LAMBDA r : r.cylinder > head), 1)

RightAsc(head, reqs) ==
    SortByCylinder(SelectSeq(reqs, LAMBDA r : r.cylinder >= head), 1)

calculateSCAN(head, reqs, size, dir) ==
    LET left  == LeftDesc(head, reqs)
        right == RightAsc(head, reqs)
        st0   == Locals(head)
    IN  IF dir = "left"
        THEN LET st1 == processQueue(st0, left)
             IN  IF Len(right) > 0
                 THEN MakeResult(
                        processQueue(Travel(st1, st1.currentCyl, 0, <<0>>),
                                     SortByCylinder(right, 1)), reqs)
                 ELSE MakeResult(st1, reqs)
        ELSE LET st1 == processQueue(st0, right)
             IN  IF Len(left) > 0
                 THEN MakeResult(
                        processQueue(Travel(st1, (size - 1) - st1.currentCyl,
                                            size - 1, <<size - 1>>),
                                     SortByCylinder(left, -1)), reqs)
                 ELSE MakeResult(st1, reqs)

calculateCSCAN(head, reqs, size, dir) ==
    LET sorted == SortByCylinder(reqs, 1)
        st0    == Locals(head)
    IN  IF dir = "right"
        THEN LET right == SelectSeq(sorted, LAMBDA r : r.cylinder >= head)
                 left  == SelectSeq(sorted, LAMBDA r : r.cylinder < head)
                 st1   == processQueue(st0, right)
             IN  IF Len(left) > 0
                 THEN MakeResult(
                        processQueue(
                          Travel(st1, (size - 1 - st1.currentCyl) + (size - 1),
                                 0, <<size - 1, 0>>),
                          left), reqs)
                 ELSE MakeResult(st1, reqs)
        ELSE LET left  == Reverse(SelectSeq(sorted, LAMBDA r : r.cylinder <= head))
                 right == Reverse(SelectSeq(sorted, LAMBDA r : r.cylinder > head))
                 st1   == processQueue(st0, left)
             IN  IF Len(right) > 0
                 THEN MakeResult(
                        processQueue(
                          Travel(st1, st1.currentCyl + (size - 1),
                                 size - 1, <<0, size - 1>>),
                          right), reqs)
                 ELSE MakeResult(st1, reqs)

calculateLOOK(head, reqs, dir) ==
    LET left  == LeftDesc(head, reqs)
        right == RightAsc(head, reqs)
        st0   == Locals(head)
    IN  IF dir = "left"
        THEN MakeResult(processQueue(processQueue(st0, left), right), reqs)
        ELSE MakeResult(processQueue(processQueue(st0, right), left), reqs)

\* JumpEntry landing on the last request of the queue, the nearest one
JumpEntryNearest(st, queue) ==
    [st EXCEPT !.sequence = Append(st.sequence, queue[Len(queue)].cylinder)]

\* JumpEntry recording nothing
JumpEntryOmitted(st, queue) == st

\* sequence.push(queue[0].cylinder): the jump entry, no cost, head not moved
JumpEntry(st, queue) ==
    [st EXCEPT !.sequence = Append(st.sequence, queue[1].cylinder)]

calculateCLOOK(head, reqs, dir) ==
    LET sorted == SortByCylinder(reqs, 1)
        st0    == Locals(head)
    IN  IF dir = "right"
        THEN LET right == SelectSeq(sorted, LAMBDA r : r.cylinder >= head)
                 left  == SelectSeq(sorted, LAMBDA r : r.cylinder < head)
                 st1   == processQueue(st0, right)
             IN  IF Len(left) > 0
                 THEN MakeResult(processQueue(JumpEntry(st1, left), left), reqs)
                 ELSE MakeResult(st1, reqs)
        ELSE LET left  == Reverse(SelectSeq(sorted, LAMBDA r : r.cylinder <= head))
                 right == Reverse(SelectSeq(sorted, LAMBDA r : r.cylinder > head))
                 st1   == processQueue(st0, left)
             IN  IF Len(right) > 0
                 THEN MakeResult(processQueue(JumpEntry(st1, right), right), reqs)
                 ELSE MakeResult(st1, reqs)

----------------------------------------------------------------------------
(* The policy names, in the order the results object lists them            *)
(* (src/components/DiskScheduler.tsx, ALGORITHMS and results)              *)

ALGORITHMS == <<"FCFS", "SSTF", "SCAN", "C-SCAN", "LOOK", "C-LOOK">>

Compute(name, head, reqs, size, dir) ==
    CASE name = "FCFS"   -> calculateFCFS(head, reqs)
      [] name = "SSTF"   -> calculateSSTF(head, reqs)
      [] name = "SCAN"   -> calculateSCAN(head, reqs, size, dir)
      [] name = "C-SCAN" -> calculateCSCAN(head, reqs, size, dir)
      [] name = "LOOK"   -> calculateLOOK(head, reqs, dir)
      [] name = "C-LOOK" -> calculateCLOOK(head, reqs, dir)

\* Array identity.  An array value carries whether it IS the caller's reqs
\* array; sort, reverse and splice work in place, so they change the
\* caller's array exactly when they are applied to it.

\* Spread handing back the caller's array itself instead of a copy
SpreadAliased(reqs) == [items |-> reqs, callers |-> TRUE]

\* [...reqs]: a new array holding the same elements
Spread(reqs) == [items |-> reqs, callers |-> FALSE]

\* Filter working in place on the caller's array
FilterInPlace(kept) == [items |-> kept, callers |-> TRUE]

\* reqs.filter(...): a new array as well, holding the elements kept
Filter(kept) == [items |-> kept, callers |-> FALSE]

\* the caller's array once an in-place operation has left `items` in arr
AfterInPlace(arr, items, reqs) == IF arr.callers THEN items ELSE reqs

\* the caller's reqs array when the policy function returns.  forEach and
\* the index reads of FCFS change nothing; SSTF splices `pending` empty;
\* SCAN and LOOK sort the two filtered arrays; C-SCAN and C-LOOK sort the
\* spread copy, and filter and reverse what they filtered from it.
reqsAfter(name, head, reqs) ==
    CASE name = "FCFS" -> reqs
      [] name = "SSTF" -> AfterInPlace(Spread(reqs), <<>>, reqs)
      [] name \in {"SCAN", "LOOK"} ->
            LET left  == Filter(SelectSeq(reqs, LAMBDA r : r.cylinder < head))
                right == Filter(SelectSeq(reqs, LAMBDA r : r.cylinder >= head))
            IN  AfterInPlace(right, SortByCylinder(right.items, 1),
                    AfterInPlace(left, SortByCylinder(left.items, -1), reqs))
      [] name \in {"C-SCAN", "C-LOOK"} ->
            LET sorted == Spread(reqs)
            IN  AfterInPlace(sorted, SortByCylinder(sorted.items, 1), reqs)

----------------------------------------------------------------------------
(* src/components/DiskScheduler.tsx: the component's state and handlers.   *)
(* Hydration from localStorage, the log console and the text of the        *)
(* "Track num" field are presentation and are left out; a typed or clicked *)
(* cylinder reaches handleAddRequest as the parsed value.                  *)

\* bounds of the inputs
MaxRequests == 2
MaxClock == 1

\* what parseInt returns: a number, or NaN
Num(v) == [nan |-> FALSE, val |-> v]

NaN == [nan |-> TRUE, val |-> 0]

\* parseInt(text) || fallback: NaN and 0 are falsy
OrElse(parsed, fallback) ==
    IF parsed.nan \/ parsed.val = 0 THEN fallback ELSE parsed.val

HeadInputs == {NaN, Num(250)}
SizeInputs == {NaN, Num(100), Num(-5)}
CylInputs == {NaN, Num(-1), Num(0), Num(150), Num(200)}
SpeedInputs == {2, 8}
SoloInputs == {"null", "C-SCAN"}
PresetInputs == {1}
RemoveInputs == {7}

\* one element of DEFAULT_REQUESTS: id `init-${idx}`
DefaultRequest(idx, c, sec) == [id |-> <<"init", idx, 0>>, cylinder |-> c, sector |-> sec]

DEFAULT_REQUESTS ==
    LET c == <<98, 183, 37, 122, 14, 124, 65, 67>>
    IN  [k \in 1..8 |-> DefaultRequest(k - 1, c[k], ((k - 1) * 45) % 360)]

PRESETS ==
    <<[name |-> "Ping-Pong",  requests |-> <<10, 190, 15, 185, 20, 180>>],
      [name |-> "Cluster",    requests |-> <<50, 52, 48, 55, 45, 51>>],
      [name |-> "Sequential", requests |-> <<10, 20, 30, 40, 50, 60>>],
      [name |-> "Chaos",      requests |-> <<190, 10, 150, 40, 120, 30>>]>>

AlgorithmNames == {ALGORITHMS[k] : k \in 1..Len(ALGORITHMS)}

\* useMemo: the six Results of a configuration
ResultsOf(head, reqs, size, dir) ==
    [name \in AlgorithmNames |-> Compute(name, head, reqs, size, dir)]

results == ResultsOf(initialHead, requests, diskSize, direction)

RECURSIVE MaxOf(_)
MaxOf(S) ==
    LET x == CHOOSE y \in S : TRUE
    IN  IF S = {x} THEN x ELSE Max(x, MaxOf(S \ {x}))

MaxStepsOf(head, reqs, size, dir) ==
    MaxOf({Len(ResultsOf(head, reqs, size, dir)[name].sequence) :
              name \in AlgorithmNames})

\* PlaybackEffect arming the stop one step before the last one
PlaybackEffectStopEarly(playing, step, steps, speed) ==
    IF playing /\ step < steps - 2
    THEN [kind |-> "advance", delay |-> 1600 \div speed]
    ELSE IF playing /\ step >= steps - 2
         THEN [kind |-> "stop", delay |-> 0]
         ELSE [kind |-> "none", delay |-> 0]

\* PlaybackEffect advancing one step past the last one
PlaybackEffectOffByOne(playing, step, steps, speed) ==
    IF playing /\ step < steps
    THEN [kind |-> "advance", delay |-> 1600 \div speed]
    ELSE IF playing /\ step >= steps
         THEN [kind |-> "stop", delay |-> 0]
         ELSE [kind |-> "none", delay |-> 0]

\* PlaybackEffect arming the advance whether or not the controller plays
PlaybackEffectIgnoringMode(playing, step, steps, speed) ==
    IF step < steps - 1
    THEN [kind |-> "advance", delay |-> 1600 \div speed]
    ELSE IF playing /\ step >= steps - 1
         THEN [kind |-> "stop", delay |-> 0]
         ELSE [kind |-> "none", delay |-> 0]

\* the playback effect: the timeout it leaves pending for a rendered state
PlaybackEffect(playing, step, steps, speed) ==
    IF playing /\ step < steps - 1
    THEN [kind |-> "advance", delay |-> 1600 \div speed]
    ELSE IF playing /\ step >= steps - 1
         THEN [kind |-> "stop", delay |-> 0]
         ELSE [kind |-> "none", delay |-> 0]

\* the re-render after a handler: maxSteps is recomputed when the
\* configuration changed and the effect replaces the pending timeout
Rendered ==
    /\ maxSteps' = IF config' = config THEN maxSteps
                   ELSE MaxStepsOf(initialHead', requests', diskSize', direction')
    /\ timer' = PlaybackEffect(isPlaying', currentStep', maxSteps', playbackSpeed')

\* the policy the header and the platter follow
Focus == IF soloAlgo = "null" THEN "FCFS" ELSE soloAlgo

\* chartData[i][name] for 0-based i; absent entries are not in the domain
chartData ==
    LET res == results
    IN  [i \in 0..(maxSteps - 1) |->
            LET shown == {name \in AlgorithmNames :
                             /\ soloAlgo = "null" \/ soloAlgo = name
                             /\ i <= currentStep}
            IN  [name \in shown |->
                    res[name].sequence[
                        Min(i, Len(res[name].sequence) - 1) + 1]]]

\* results[soloAlgo || 'FCFS'].sequence[currentStep] ?? 'NULL'
TargetTrack ==
    LET seq == results[Focus].sequence
    IN  IF currentStep < Len(seq)
        THEN [null |-> FALSE, track |-> seq[currentStep + 1]]
        ELSE [null |-> TRUE, track |-> 0]

\* results[soloAlgo || 'FCFS'].sequence[currentStep] || initialHead
headPos ==
    LET seq == results[Focus].sequence
    IN  IF currentStep < Len(seq) /\ seq[currentStep + 1] /= 0
        THEN seq[currentStep + 1]
        ELSE initialHead

\* InsertByOperationalTime moving an entry in front of its equals
RECURSIVE InsertByOperationalTimeUnstable(_, _)
InsertByOperationalTimeUnstable(sorted, m) ==
    IF sorted = <<>> THEN <<m>>
    ELSE IF sorted[Len(sorted)].operationalTime - m.operationalTime < 0
         THEN Append(sorted, m)
         ELSE Append(InsertByOperationalTimeUnstable(
                          SubSeq(sorted, 1, Len(sorted) - 1), m),
                     sorted[Len(sorted)])

\* Array.prototype.sort with comparator a.operationalTime - b.operationalTime;
\* the sort is stable
RECURSIVE InsertByOperationalTime(_, _)
InsertByOperationalTime(sorted, m) ==
    IF sorted = <<>> THEN <<m>>
    ELSE IF sorted[Len(sorted)].operationalTime - m.operationalTime <= 0
         THEN Append(sorted, m)
         ELSE Append(InsertByOperationalTime(
                          SubSeq(sorted, 1, Len(sorted) - 1), m),
                     sorted[Len(sorted)])

RECURSIVE SortByOperationalTime(_)
SortByOperationalTime(s) ==
    IF s = <<>> THEN <<>>
    ELSE InsertByOperationalTime(
             SortByOperationalTime(SubSeq(s, 1, Len(s) - 1)), s[Len(s)])

\* one entry of metricsData
Metric(name, res) ==
    [name            |-> name,
     seekCount       |-> res.totalSeekCount,
     operationalTime |-> res.totalOperationalTime]

\* Object.entries(results) lists the policies in the order the object
\* literal names them; the colour of an entry is presentation
metricsData ==
    SortByOperationalTime(
        [k \in 1..Len(ALGORITHMS) |->
            Metric(ALGORITHMS[k], results[ALGORITHMS[k]])])

\* observation that ranks whatever the request list is
observationAlwaysRanking ==
    LET md == metricsData
    IN  [awaiting    |-> FALSE,
         best        |-> Head(md).name,
         time        |-> Head(md).operationalTime,
         fcfsPenalty |-> md[Len(md)].name = "FCFS"]

\* the summary: "Awaiting configuration..." for an empty list, else the
\* sentence naming best and its time, with the FCFS sentence when worst is
\* FCFS
observation ==
    IF Len(requests) = 0
    THEN [awaiting |-> TRUE, best |-> "null", time |-> 0, fcfsPenalty |-> FALSE]
    ELSE LET md == metricsData
         IN  [awaiting    |-> FALSE,
              best        |-> Head(md).name,
              time        |-> Head(md).operationalTime,
              fcfsPenalty |-> md[Len(md)].name = "FCFS"]

\* requests.filter((_, idx) => idx !== i), with 1-based i
FilterIndex(reqs, i) ==
    [k \in 1..(Len(reqs) - 1) |-> IF k < i THEN reqs[k] ELSE reqs[k + 1]]

Init ==
    /\ initialHead = 50
    /\ diskSize = 200
    /\ requests = DEFAULT_REQUESTS
    /\ direction = "right"
    /\ isPlaying = FALSE
    /\ currentStep = 0
    /\ playbackSpeed = 2
    /\ soloAlgo = "null"
    /\ maxSteps = MaxStepsOf(50, DEFAULT_REQUESTS, 200, "right")
    /\ timer = [kind |-> "none", delay |-> 0]
    /\ now = 0
    /\ ran = 0
    /\ out = <<>>

SetInitialHead ==
    \E parsed \in HeadInputs :
        /\ initialHead' = OrElse(parsed, 0)
        /\ currentStep' = 0
        /\ isPlaying' = FALSE
        /\ UNCHANGED <<diskSize, requests, direction, playbackSpeed, soloAlgo,
                       now, harness>>
        /\ Rendered

SetDiskSize ==
    \E parsed \in SizeInputs :
        /\ diskSize' = OrElse(parsed, 200)
        /\ UNCHANGED <<initialHead, requests, direction, isPlaying,
                       currentStep, playbackSpeed, soloAlgo, now, harness>>
        /\ Rendered

SetDirection ==
    \E dir \in {"left", "right"} :
        /\ direction' = dir
        /\ currentStep' = 0
        /\ isPlaying' = FALSE
        /\ UNCHANGED <<initialHead, diskSize, requests, playbackSpeed,
                       soloAlgo, now, harness>>
        /\ Rendered

\* the insertion with the upper end of the range let in
handleAddRequestInclusive ==
    \E val \in CylInputs :
        /\ Len(requests) < MaxRequests
        /\ IF ~val.nan /\ val.val >= 0 /\ val.val <= diskSize
           THEN /\ requests' = Append(requests,
                                  [id       |-> <<"req", 0, now>>,
                                   cylinder |-> val.val,
                                   sector   |-> (Len(requests) * 40) % 360])
                /\ isPlaying' = FALSE
                /\ currentStep' = 0
                /\ UNCHANGED <<initialHead, diskSize, direction, playbackSpeed,
                               soloAlgo, now, harness>>
                /\ Rendered
           ELSE UNCHANGED vars

handleAddRequest ==
    \E val \in CylInputs :
        /\ Len(requests) < MaxRequests
        /\ IF ~val.nan /\ val.val >= 0 /\ val.val < diskSize
           THEN /\ requests' = Append(requests,
                                  [id       |-> <<"req", 0, now>>,
                                   cylinder |-> val.val,
                                   sector   |-> (Len(requests) * 40) % 360])
                /\ isPlaying' = FALSE
                /\ currentStep' = 0
                /\ UNCHANGED <<initialHead, diskSize, direction, playbackSpeed,
                               soloAlgo, now, harness>>
                /\ Rendered
           ELSE UNCHANGED vars

applyPreset ==
    \E p \in PresetInputs :
        /\ requests' = [k \in 1..Len(PRESETS[p].requests) |->
                           [id       |-> <<"p", k - 1, now>>,
                            cylinder |-> PRESETS[p].requests[k],
                            sector   |-> ((k - 1) * 30) % 360]]
        /\ isPlaying' = FALSE
        /\ currentStep' = 0
        /\ UNCHANGED <<initialHead, diskSize, direction, playbackSpeed,
                       soloAlgo, now, harness>>
        /\ Rendered

Purge ==
    /\ requests' = <<>>
    /\ currentStep' = 0
    /\ isPlaying' = FALSE
    /\ UNCHANGED <<initialHead, diskSize, direction, playbackSpeed, soloAlgo,
                   now, harness>>
    /\ Rendered

RemoveRequest ==
    \E i \in RemoveInputs \cap 1..Len(requests) :
        /\ requests' = FilterIndex(requests, i)
        /\ currentStep' = 0
        /\ isPlaying' = FALSE
        /\ UNCHANGED <<initialHead, diskSize, direction, playbackSpeed,
                       soloAlgo, now, harness>>
        /\ Rendered

\* handlePlayPause without the rewind from the last step
handlePlayPauseNoRewind ==
    /\ currentStep' = currentStep
    /\ isPlaying' = ~isPlaying
    /\ UNCHANGED <<config, playbackSpeed, soloAlgo, now, harness>>
    /\ Rendered

handlePlayPause ==
    /\ currentStep' = IF currentStep >= maxSteps - 1 THEN 0 ELSE currentStep
    /\ isPlaying' = ~isPlaying
    /\ UNCHANGED <<config, playbackSpeed, soloAlgo, now, harness>>
    /\ Rendered

\* SkipBack rewinding only, the play/pause mode left as it is
SkipBackKeepingMode ==
    /\ currentStep' = 0
    /\ isPlaying' = isPlaying
    /\ UNCHANGED <<config, playbackSpeed, soloAlgo, now, harness>>
    /\ Rendered

SkipBack ==
    /\ currentStep' = 0
    /\ isPlaying' = FALSE
    /\ UNCHANGED <<config, playbackSpeed, soloAlgo, now, harness>>
    /\ Rendered

\* SetPlaybackSpeed rewinding and pausing as the configuration handlers do
SetPlaybackSpeedRewinding ==
    \E speed \in SpeedInputs :
        /\ playbackSpeed' = speed
        /\ currentStep' = 0
        /\ isPlaying' = FALSE
        /\ UNCHANGED <<config, soloAlgo, now, harness>>
        /\ Rendered

SetPlaybackSpeed ==
    \E speed \in SpeedInputs :
        /\ playbackSpeed' = speed
        /\ UNCHANGED <<config, isPlaying, currentStep, soloAlgo, now, harness>>
        /\ Rendered

SetSoloAlgo ==
    \E a \in SoloInputs :
        /\ soloAlgo' = a
        /\ UNCHANGED <<config, isPlaying, currentStep, playbackSpeed, now,
                       harness>>
        /\ Rendered

\* the timeout of line 147 fires
TimerAdvance ==
    /\ timer.kind = "advance"
    /\ currentStep' = currentStep + 1
    /\ UNCHANGED <<config, isPlaying, playbackSpeed, soloAlgo, now, harness>>
    /\ Rendered

\* the timeout of line 151 fires
TimerStop ==
    /\ timer.kind = "stop"
    /\ isPlaying' = FALSE
    /\ UNCHANGED <<config, currentStep, playbackSpeed, soloAlgo, now, harness>>
    /\ Rendered

\* the clock behind Date.now() moves on.  The clock is read only to make
\* ids, so a tick counts when an id made at the present value exists: it is
\* the tick that sets the next id apart from that one.
ClockTick ==
    /\ now < MaxClock
    /\ \E i \in 1..Len(requests) :
          requests[i].id[1] \in {"req", "p"} /\ requests[i].id[3] = now
    /\ now' = now + 1
    /\ UNCHANGED <<config, playback, harness>>

Next ==
    \/ SetInitialHead
    \/ SetDiskSize
    \/ SetDirection
    \/ handleAddRequest
    \/ applyPreset
    \/ Purge
    \/ RemoveRequest
    \/ handlePlayPause
    \/ SkipBack
    \/ SetPlaybackSpeed
    \/ SetSoloAlgo
    \/ TimerAdvance
    \/ TimerStop
    \/ ClockTick

Spec == Init /\ [][Next]_vars

----------------------------------------------------------------------------
(* Uninterrupted playback: the user acts only while the controller is      *)
(* Idle, so that a playback, once started, is left to the two timeouts of  *)
(* the playback effect.  A timeout that stays pending fires: the browser's *)
(* event loop runs every timer that is not cleared.                        *)

PlaybackNext ==
    \/ ~isPlaying /\ SetInitialHead
    \/ ~isPlaying /\ SetDiskSize
    \/ ~isPlaying /\ SetDirection
    \/ ~isPlaying /\ handleAddRequest
    \/ ~isPlaying /\ applyPreset
    \/ ~isPlaying /\ Purge
    \/ ~isPlaying /\ RemoveRequest
    \/ ~isPlaying /\ handlePlayPause
    \/ ~isPlaying /\ SkipBack
    \/ ~isPlaying /\ SetPlaybackSpeed
    \/ ~isPlaying /\ SetSoloAlgo
    \/ TimerAdvance
    \/ TimerStop
    \/ ClockTick

PlaybackSpec ==
    /\ Init
    /\ [][PlaybackNext]_vars
    /\ WF_vars(TimerAdvance)
    /\ WF_vars(TimerStop)

----------------------------------------------------------------------------
(* Engine harness: a valid run configuration is drawn, then the six        *)
(* policy functions are applied to it one after the other.                 *)

\* request lists built the way DEFAULT_REQUESTS is: the sector of the
\* request of index idx is (idx * stride) % 360
RequestLists(size) ==
    UNION {{[i \in 1..n |-> DefaultRequest(i - 1, c[i], ((i - 1) * stride) % 360)] :
                c \in [1..n -> 0..(size - 1)], stride \in SectorStrides} :
           n \in 0..MaxReqs}

ValidConfig ==
    /\ diskSize > 0
    /\ 0 <= initialHead /\ initialHead < diskSize
    /\ \A i \in 1..Len(requests) :
          0 <= requests[i].cylinder /\ requests[i].cylinder < diskSize

\* the configurations drawn: every small valid one, and the one the
\* component starts from (head 50, 200 tracks, DEFAULT_REQUESTS)
EngineInit ==
    /\ \/ /\ diskSize \in 1..MaxDisk
          /\ initialHead \in 0..(diskSize - 1)
          /\ requests \in RequestLists(diskSize)
       \/ /\ diskSize = 200
          /\ initialHead = 50
          /\ requests = DEFAULT_REQUESTS
    /\ direction \in {"left", "right"}
    /\ isPlaying = FALSE
    /\ currentStep = 0
    /\ playbackSpeed = 2
    /\ soloAlgo = "null"
    /\ maxSteps = MaxStepsOf(initialHead, requests, diskSize, direction)
    /\ timer = [kind |-> "none", delay |-> 0]
    /\ now = 0
    /\ ran = 0
    /\ out = <<>>

Run(k) ==
    /\ ran = k - 1
    /\ ran' = k
    /\ out' = Append(out, Compute(ALGORITHMS[k], initialHead, requests,
                                  diskSize, direction))
    /\ requests' = reqsAfter(ALGORITHMS[k], initialHead, requests)
    /\ UNCHANGED <<initialHead, diskSize, direction, playback, now>>

RunFCFS == Run(1)

RunSSTF == Run(2)

RunSCAN == Run(3)

RunCSCAN == Run(4)

RunLOOK == Run(5)

RunCLOOK == Run(6)

\* the caller's array when the k-th call of one computation of results
\* starts: what the calls before it have left
RECURSIVE reqsBefore(_, _, _)
reqsBefore(k, head, reqs) ==
    IF k = 1 THEN reqs
    ELSE reqsAfter(ALGORITHMS[k - 1], head, reqsBefore(k - 1, head, reqs))

\* the results are computed a second time, the six calls in one go as in
\* the results memo, and recorded after those of the first computation
RunAgain ==
    /\ ran = Len(ALGORITHMS)
    /\ ran' = ran + 1
    /\ out' = out \o [k \in 1..Len(ALGORITHMS) |->
                          Compute(ALGORITHMS[k], initialHead,
                                  reqsBefore(k, initialHead, requests),
                                  diskSize, direction)]
    /\ requests' = reqsBefore(Len(ALGORITHMS) + 1, initialHead, requests)
    /\ UNCHANGED <<initialHead, diskSize, direction, playback, now>>

EngineNext ==
    \/ RunFCFS
    \/ RunSSTF
    \/ RunSCAN
    \/ RunCSCAN
    \/ RunLOOK
    \/ RunCLOOK
    \/ RunAgain

EngineSpec == EngineInit /\ [][EngineNext]_vars

----------------------------------------------------------------------------
(* Vocabulary of the properties *)

RECURSIVE PathLength(_)
PathLength(seq) ==
    IF Len(seq) <= 1 THEN 0
    ELSE Abs(seq[2] - seq[1]) + PathLength(Tail(seq))

Computed(name) == \E k \in 1..Min(ran, Len(ALGORITHMS)) : ALGORITHMS[k] = name

ResultOf(name) ==
    out[CHOOSE k \in 1..Min(ran, Len(ALGORITHMS)) : ALGORITHMS[k] = name]

NumBelow == Cardinality({i \in 1..Len(requests) : requests[i].cylinder < initialHead})

NumAbove == Cardinality({i \in 1..Len(requests) : requests[i].cylinder > initialHead})

NumAt == Len(requests) - NumBelow - NumAbove

\* C1: for every policy and every valid configuration, totalSeekCount is the
\* sum of |sequence[i] - sequence[i-1]|, the boundary and jump entries of
\* SCAN, C-SCAN and C-LOOK included.
C1_SeekCountIsPathLength ==
    \A k \in 1..ran : out[k].totalSeekCount = PathLength(out[k].sequence)

\* all six policies ran on a configuration where SCAN and C-SCAN put their
\* boundary entries and C-LOOK its jump entry, with a real distance to cover
C1_Witness ==
    /\ ran = 6
    /\ Len(requests) = 3
    /\ Len(ResultOf("SCAN").sequence) = Len(requests) + 2
    /\ Len(ResultOf("C-SCAN").sequence) = Len(requests) + 3
    /\ Len(ResultOf("C-LOOK").sequence) = Len(requests) + 2
    /\ ResultOf("C-SCAN").totalSeekCount > ResultOf("C-LOOK").totalSeekCount

\* C2 as claimed: for every policy, sequence[0] is initialHead and sequence
\* and steps have the same length.
C2_SequenceAlignedWithSteps ==
    \A k \in 1..ran :
        /\ out[k].sequence[1] = initialHead
        /\ Len(out[k].sequence) = Len(out[k].steps)

\* the input indices of the requests SSTF has not served before its k-th
\* service (steps[1] is the start entry, steps[j + 1] the j-th service)
PendingBefore(res, k) ==
    {i \in 1..Len(requests) :
        \A j \in 1..(k - 1) : res.steps[j + 1].id /= requests[i].id}

\* C3 as claimed: every step that changes the run configuration (head, disk
\* size, direction or the request list) leaves the controller Idle at
\* currentStep 0.
C3_ConfigChangeResetsPlayback ==
    [][config' /= config => (isPlaying' = FALSE /\ currentStep' = 0)]_vars

\* the position the holding rule gives policy name at the current step
HeldPosition(name) ==
    LET seq == results[name].sequence
    IN  seq[Min(currentStep, Len(seq) - 1) + 1]

\* C4 as claimed: at every reachable step, the chart entry of every shown
\* policy, the header's Target Track and the head position handed to the
\* platter are the policy's sequence[min(currentStep, length - 1)].
C4_ExposedPositionsHeld ==
    /\ currentStep \in DOMAIN chartData =>
           \A name \in DOMAIN chartData[currentStep] :
               chartData[currentStep][name] = HeldPosition(name)
    /\ TargetTrack = [null |-> FALSE, track |-> HeldPosition(Focus)]
    /\ headPos = HeldPosition(Focus)

\* C5 as claimed: in every reachable state the configuration the engine is
\* called with is valid: diskSize > 0, 0 <= initialHead < diskSize and every
\* request cylinder in [0, diskSize).
C5_EngineConfigurationValid ==
    /\ diskSize > 0
    /\ 0 <= initialHead
    /\ initialHead < diskSize
    /\ \A i \in 1..Len(requests) : requests[i].cylinder \in 0..(diskSize - 1)

\* C6: at every SSTF service step the served request is a pending request
\* at minimum distance from the current head position, the one of lowest
\* input index among those, and the loop runs until nothing is pending.
C6_SSTFServesNearestLowestIndex ==
    Computed("SSTF") =>
        LET res == ResultOf("SSTF")
        IN  /\ Len(res.steps) = Len(requests) + 1
            /\ Len(res.sequence) = Len(requests) + 1
            /\ \A k \in 1..Len(requests) :
                  LET cur     == res.sequence[k]
                      pending == PendingBefore(res, k)
                      Dist(i) == Abs(requests[i].cylinder - cur)
                      nearest == {i \in pending :
                                     \A j \in pending : Dist(i) <= Dist(j)}
                  IN  /\ nearest /= {}
                      /\ \E i \in nearest :
                            /\ \A j \in nearest : i <= j
                            /\ res.steps[k + 1] = requests[i]
                            /\ res.sequence[k + 1] = requests[i].cylinder

\* SSTF has run on three requests of which the first and the last are
\* equally near to the head, on opposite sides
C6_Witness ==
    /\ Computed("SSTF")
    /\ Len(requests) = 3
    /\ requests[1].cylinder < initialHead
    /\ requests[3].cylinder > initialHead
    /\ initialHead - requests[1].cylinder = requests[3].cylinder - initialHead
    /\ Abs(requests[2].cylinder - initialHead) > initialHead - requests[1].cylinder

\* the cylinders of the requests on one side of the head, in input order
CylindersWhere(Test(_)) ==
    LET picked == SelectSeq(requests, Test)
    IN  [i \in 1..Len(picked) |-> picked[i].cylinder]

\* the ascending (descending) arrangement of a sequence of numbers
Ascending(s) ==
    [p \in 1..Len(s) |->
        CHOOSE v \in {s[i] : i \in 1..Len(s)} :
            /\ Cardinality({i \in 1..Len(s) : s[i] < v}) < p
            /\ p <= Cardinality({i \in 1..Len(s) : s[i] <= v})]

Descending(s) ==
    [p \in 1..Len(s) |->
        CHOOSE v \in {s[i] : i \in 1..Len(s)} :
            /\ Cardinality({i \in 1..Len(s) : s[i] > v}) < p
            /\ p <= Cardinality({i \in 1..Len(s) : s[i] >= v})]

\* C7: SCAN's sequence is the head, the first partition, and, exactly when
\* the second partition is non-empty, the boundary entry followed by it;
\* the boundary's distance is part of totalSeekCount.
C7_SCANSequenceShape ==
    Computed("SCAN") =>
        LET res   == ResultOf("SCAN")
            left  == Descending(CylindersWhere(LAMBDA r : r.cylinder < initialHead))
            right == Ascending(CylindersWhere(LAMBDA r : r.cylinder >= initialHead))
        IN  /\ direction = "right" =>
                 res.sequence = <<initialHead>> \o right \o
                     (IF left /= <<>> THEN <<diskSize - 1>> \o left ELSE <<>>)
            /\ direction = "left" =>
                 res.sequence = <<initialHead>> \o left \o
                     (IF right /= <<>> THEN <<0>> \o right ELSE <<>>)
            /\ res.totalSeekCount = PathLength(res.sequence)

\* SCAN has run rightwards with requests in both partitions and none on the
\* boundary cylinder it travels to
C7_Witness ==
    /\ Computed("SCAN")
    /\ direction = "right"
    /\ Len(requests) = 3
    /\ NumBelow >= 1
    /\ NumAt + NumAbove >= 1
    /\ \A i \in 1..Len(requests) : requests[i].cylinder /= diskSize - 1
    /\ Len(ResultOf("SCAN").sequence) = Len(requests) + 2

\* the number of requests C-SCAN and C-LOOK serve in their first sweep
FirstSweep == IF direction = "right" THEN NumAt + NumAbove ELSE NumAt + NumBelow

FarSide == Len(requests) - FirstSweep

\* C8: C-SCAN with requests on the far side has exactly two non-servicing
\* entries, next to each other after the first sweep (diskSize-1 then 0 for
\* right, 0 then diskSize-1 for left), and serves the far side in the order
\* that continues the direction; with no request on the far side it has
\* no boundary entry.
C8_CSCANBoundaryPair ==
    Computed("C-SCAN") =>
        LET res == ResultOf("C-SCAN")
            n   == Len(requests)
            f   == FirstSweep
        IN  /\ Len(res.steps) = n + 1
            /\ FarSide = 0 =>
                 /\ Len(res.sequence) = n + 1
                 /\ \A i \in 1..(n + 1) : res.sequence[i] = res.steps[i].cylinder
            /\ FarSide > 0 =>
                 /\ Len(res.sequence) = n + 3
                 /\ \A i \in 1..(f + 1) : res.sequence[i] = res.steps[i].cylinder
                 /\ res.sequence[f + 2] = (IF direction = "right" THEN diskSize - 1 ELSE 0)
                 /\ res.sequence[f + 3] = (IF direction = "right" THEN 0 ELSE diskSize - 1)
                 /\ \A i \in (f + 2)..(n + 1) :
                       res.sequence[i + 2] = res.steps[i].cylinder
                 /\ \A i \in (f + 2)..n :
                       IF direction = "right"
                       THEN res.steps[i].cylinder <= res.steps[i + 1].cylinder
                       ELSE res.steps[i].cylinder >= res.steps[i + 1].cylinder
                 /\ \A i \in (f + 2)..(n + 1) :
                       IF direction = "right"
                       THEN res.steps[i].cylinder < initialHead
                       ELSE res.steps[i].cylinder > initialHead

\* C-SCAN has run leftwards with two requests of different cylinders on the
\* far side
C8_Witness ==
    /\ Computed("C-SCAN")
    /\ direction = "left"
    /\ FarSide = 2
    /\ FirstSweep = 1
    /\ \E i, j \in 1..Len(requests) :
          /\ requests[i].cylinder > initialHead
          /\ requests[j].cylinder > requests[i].cylinder

\* C9 as claimed: C-LOOK's sequence holds a boundary cylinder only where a
\* request or the initial head sits, and the jump lands on the far-side
\* request nearest to the head position just before the jump.
C9_CLOOKJumpsToNearest ==
    Computed("C-LOOK") =>
        LET res == ResultOf("C-LOOK")
            f   == FirstSweep
            far == {i \in 1..Len(requests) :
                       IF direction = "right"
                       THEN requests[i].cylinder < initialHead
                       ELSE requests[i].cylinder > initialHead}
        IN  /\ \A i \in 1..Len(res.sequence) :
                  \/ res.sequence[i] = initialHead
                  \/ \E j \in 1..Len(requests) : requests[j].cylinder = res.sequence[i]
            /\ far /= {} =>
                  \A j \in far :
                      Abs(res.sequence[f + 2] - res.sequence[f + 1])
                          <= Abs(requests[j].cylinder - res.sequence[f + 1])

\* C9 amended: C-LOOK's sequence holds a boundary cylinder only where a
\* request or the initial head sits, and the jump lands on the first request
\* of the far side in sweep order: its lowest cylinder for direction right,
\* its highest for direction left, the far-side request farthest from the
\* head position just before the jump.
C9_CLOOKJumpsToSweepStart ==
    Computed("C-LOOK") =>
        LET res == ResultOf("C-LOOK")
            f   == FirstSweep
            far == {i \in 1..Len(requests) :
                       IF direction = "right"
                       THEN requests[i].cylinder < initialHead
                       ELSE requests[i].cylinder > initialHead}
        IN  /\ \A i \in 1..Len(res.sequence) :
                  \/ res.sequence[i] = initialHead
                  \/ \E j \in 1..Len(requests) : requests[j].cylinder = res.sequence[i]
            /\ far /= {} =>
                  /\ \E j \in far : requests[j].cylinder = res.sequence[f + 2]
                  /\ \A j \in far :
                        /\ direction = "right" =>
                              res.sequence[f + 2] <= requests[j].cylinder
                        /\ direction = "left" =>
                              res.sequence[f + 2] >= requests[j].cylinder
                        /\ Abs(res.sequence[f + 2] - res.sequence[f + 1])
                              >= Abs(requests[j].cylinder - res.sequence[f + 1])

\* C-LOOK has run with two far-side requests of different cylinders and no
\* request on a boundary cylinder
C9_Witness ==
    /\ Computed("C-LOOK")
    /\ FarSide = 2
    /\ \E i, j \in 1..Len(requests) :
          /\ requests[i].cylinder < initialHead
          /\ requests[j].cylinder < requests[i].cylinder
    /\ direction = "right"
    /\ \A i \in 1..Len(requests) : requests[i].cylinder /= 0
    /\ \A i \in 1..Len(ResultOf("C-LOOK").sequence) :
          ResultOf("C-LOOK").sequence[i] /= 0

\* C10: C-LOOK with a non-empty far side records exactly one non-servicing
\* entry, equal to the cylinder of the first request served after it, and
\* serves the far side in the order that continues the direction; with an
\* empty far side it records no extra entry.
C10_CLOOKSingleJumpEntry ==
    Computed("C-LOOK") =>
        LET res == ResultOf("C-LOOK")
            n   == Len(requests)
            f   == FirstSweep
        IN  /\ Len(res.steps) = n + 1
            /\ FarSide = 0 =>
                 /\ Len(res.sequence) = n + 1
                 /\ \A i \in 1..(n + 1) : res.sequence[i] = res.steps[i].cylinder
            /\ FarSide > 0 =>
                 /\ Len(res.sequence) = n + 2
                 /\ \A i \in 1..(f + 1) : res.sequence[i] = res.steps[i].cylinder
                 /\ res.sequence[f + 2] = res.steps[f + 2].cylinder
                 /\ \A i \in (f + 2)..(n + 1) :
                       res.sequence[i + 1] = res.steps[i].cylinder
                 /\ \A i \in (f + 2)..n :
                       IF direction = "right"
                       THEN res.steps[i].cylinder <= res.steps[i + 1].cylinder
                       ELSE res.steps[i].cylinder >= res.steps[i + 1].cylinder
                 /\ \A i \in (f + 2)..(n + 1) :
                       IF direction = "right"
                       THEN res.steps[i].cylinder < initialHead
                       ELSE res.steps[i].cylinder > initialHead

\* C-LOOK has run leftwards with two far-side requests of different
\* cylinders
C10_Witness ==
    /\ Computed("C-LOOK")
    /\ direction = "left"
    /\ FarSide = 2
    /\ \E i, j \in 1..Len(requests) :
          /\ requests[i].cylinder > initialHead
          /\ requests[j].cylinder > requests[i].cylinder

\* C11: LOOK's sequence is the head followed by the cylinders of the first
\* partition in the chosen direction and then of the other one, each sorted
\* as SCAN sorts it, with no boundary entry: it has one entry more than
\* there are requests, and every entry after the first is the cylinder of
\* the request served at that step.
C11_LOOKSequenceShape ==
    Computed("LOOK") =>
        LET res   == ResultOf("LOOK")
            left  == Descending(CylindersWhere(LAMBDA r : r.cylinder < initialHead))
            right == Ascending(CylindersWhere(LAMBDA r : r.cylinder >= initialHead))
        IN  /\ res.sequence = <<initialHead>> \o
                   (IF direction = "left" THEN left \o right ELSE right \o left)
            /\ Len(res.sequence) = Len(requests) + 1
            /\ Len(res.steps) = Len(res.sequence)
            /\ \A k \in 2..Len(res.sequence) :
                  /\ res.sequence[k] = res.steps[k].cylinder
                  /\ \E i \in 1..Len(requests) : requests[i] = res.steps[k]

\* requests on both sides of the head and none on the last track, where
\* SCAN would have entered the boundary
C11_Witness ==
    /\ Computed("LOOK")
    /\ direction = "right"
    /\ NumBelow >= 1
    /\ NumAt >= 1
    /\ NumAbove >= 1
    /\ \A i \in 1..Len(requests) : requests[i].cylinder /= diskSize - 1

\* C12: FCFS serves the requests in input order whatever their distances:
\* sequence is the head followed by the request cylinders in arrival order,
\* and steps is the start entry followed by the requests in arrival order.
C12_FCFSInputOrder ==
    Computed("FCFS") =>
        LET res == ResultOf("FCFS")
        IN  /\ res.sequence =
                   <<initialHead>> \o [i \in 1..Len(requests) |-> requests[i].cylinder]
            /\ res.steps =
                   <<[id |-> <<"start", 0, 0>>, cylinder |-> initialHead, sector |-> 0]>>
                      \o requests

\* the first request is farther from the head than the second, and the
\* list is not in cylinder order
C12_Witness ==
    /\ Computed("FCFS")
    /\ Len(requests) = 3
    /\ Abs(requests[1].cylinder - initialHead) > Abs(requests[2].cylinder - initialHead)
    /\ requests[2].cylinder > requests[3].cylinder

\* the workload the component starts with: head 50 and the cylinders
\* 98, 183, 37, 122, 14, 124, 65, 67
DefaultWorkload ==
    /\ initialHead = 50
    /\ [i \in 1..Len(requests) |-> requests[i].cylinder]
          = <<98, 183, 37, 122, 14, 124, 65, 67>>

\* C13 as stated: on the default workload SSTF serves cylinder 65 first and
\* its totalSeekCount is 640.
C13_SSTFDefaultFirst65Total640 ==
    (Computed("SSTF") /\ DefaultWorkload) =>
        /\ ResultOf("SSTF").sequence[2] = 65
        /\ ResultOf("SSTF").totalSeekCount = 640

\* C13, amended: on the default workload SSTF serves cylinder 37 first (13
\* tracks from the head, against 15 for 65), goes on to 14 and then sweeps
\* up to 183, and its totalSeekCount is 13 + 23 + 169 = 205.
C13_SSTFDefaultFirst37Total205 ==
    (Computed("SSTF") /\ DefaultWorkload) =>
        /\ ResultOf("SSTF").sequence = <<50, 37, 14, 65, 67, 98, 122, 124, 183>>
        /\ ResultOf("SSTF").totalSeekCount = 205

C13_Witness ==
    /\ Computed("SSTF")
    /\ DefaultWorkload
    /\ ~Computed("SCAN")

\* C14: on the default workload with 200 tracks and direction right, SCAN
\* enters the boundary 199 in sequence before it serves any request of the
\* left partition (37, 14), and its totalSeekCount is 334.
C14_SCANDefaultBoundaryTotal334 ==
    (Computed("SCAN") /\ DefaultWorkload /\ diskSize = 200 /\ direction = "right") =>
        LET res == ResultOf("SCAN")
        IN  /\ \E b \in 1..Len(res.sequence) :
                  /\ res.sequence[b] = 199
                  /\ \A k \in 1..Len(res.sequence) :
                        res.sequence[k] \in {37, 14} => b < k
            /\ {k \in 2..Len(res.steps) : res.steps[k].cylinder \in {37, 14}} /= {}
            /\ \A k \in 1..Len(res.steps) : res.steps[k].cylinder /= 199
            /\ res.totalSeekCount = 334

C14_Witness ==
    /\ Computed("SCAN")
    /\ DefaultWorkload
    /\ diskSize = 200
    /\ direction = "right"

\* C15: with an empty request list every policy returns the sequence <<head>>,
\* the steps <<start entry>>, totalSeekCount, totalRotationTime and
\* totalOperationalTime 0, and averageSeekTime 0 over a non-zero divisor.
C15_EmptyListResult ==
    Len(requests) = 0 =>
        \A k \in 1..Len(out) :
            /\ out[k].sequence = <<initialHead>>
            /\ out[k].steps =
                  <<[id |-> <<"start", 0, 0>>, cylinder |-> initialHead, sector |-> 0]>>
            /\ out[k].totalSeekCount = 0
            /\ out[k].totalRotationTime = 0
            /\ out[k].totalOperationalTime = 0
            /\ out[k].averageSeekTime.num = 0
            /\ out[k].averageSeekTime.den /= 0

\* all six policies have run on an empty list, away from both boundaries
C15_Witness ==
    /\ Len(requests) = 0
    /\ ran = 6
    /\ 0 < initialHead
    /\ initialHead < diskSize - 1

\* the place in sequence of the k-th step, when the non-servicing entries
\* (extra of them) come right after the f-th step
StepPosition(f, extra, k) == IF k <= f THEN k ELSE k + extra

\* C16: in every result the steps after the start entry are a permutation of
\* the requests: each request, told by its id, is one step and only one; and
\* two requests of the same cylinder served one after the other are two
\* steps whose entries in sequence are neighbours on that cylinder, so the
\* head covers no distance between them.
C16_StepsArePermutation ==
    \A n \in 1..Len(out) :
        LET res   == out[n]
            extra == Len(res.sequence) - Len(res.steps)
        IN  /\ Len(res.steps) = Len(requests) + 1
            /\ \A i \in 1..Len(requests) :
                  /\ Cardinality({j \in 2..Len(res.steps) :
                                     res.steps[j].id = requests[i].id}) = 1
                  /\ \E j \in 2..Len(res.steps) : res.steps[j] = requests[i]
            /\ extra >= 0
            /\ \E f \in 1..Len(res.steps) :
                  /\ \A k \in 1..Len(res.steps) :
                        res.sequence[StepPosition(f, extra, k)] = res.steps[k].cylinder
                  /\ \A j \in 2..(Len(res.steps) - 1) :
                        res.steps[j].cylinder = res.steps[j + 1].cylinder =>
                            /\ StepPosition(f, extra, j + 1) = StepPosition(f, extra, j) + 1
                            /\ Abs(res.sequence[StepPosition(f, extra, j + 1)]
                                     - res.sequence[StepPosition(f, extra, j)]) = 0

\* two requests of one cylinder below the head, apart in the input, and a
\* third one elsewhere; all six policies have run
C16_Witness ==
    /\ ran = 6
    /\ Len(requests) = 3
    /\ requests[1].cylinder = requests[3].cylinder
    /\ requests[1].cylinder < initialHead
    /\ requests[2].cylinder >= initialHead

\* C17: in every result averageSeekTime is totalSeekCount over
\* max(1, number of requests), and totalOperationalTime is totalSeekCount
\* times 2 ms plus totalRotationTime (times in units of 1/36000 ms).
C17_AverageAndOperationalTime ==
    \A n \in 1..Len(out) :
        LET res == out[n]
        IN  /\ res.averageSeekTime.num = res.totalSeekCount
            /\ res.averageSeekTime.den =
                  (IF Len(requests) > 1 THEN Len(requests) ELSE 1)
            /\ res.totalOperationalTime =
                  res.totalSeekCount * 2 * 36000 + res.totalRotationTime

\* a run where the head both moves and waits for the platter
C17_Witness ==
    /\ ran = 6
    /\ Len(requests) = 3
    /\ out[1].totalSeekCount > 0
    /\ out[1].totalRotationTime > 0

\* the degrees turned along a list of steps, the first being the start entry
RECURSIVE DegreesAlong(_)
DegreesAlong(steps) ==
    IF Len(steps) <= 1 THEN 0
    ELSE ((steps[2].sector - steps[1].sector + 360) % 360)
            + DegreesAlong(Tail(steps))

\* C18: in every result the rotation, in degrees, is the sum over the steps
\* in service order of (target sector - current sector + 360) mod 360, the
\* current sector being 0 at the start and the sector of the request just
\* served afterwards; each term is in 0..359; the entries of sequence that
\* serve no request add nothing.  totalRotationTime is 833 units a degree.
C18_RotationIsSumOfWraps ==
    \A n \in 1..Len(out) :
        LET res == out[n]
        IN  /\ res.steps[1].sector = 0
            /\ res.totalRotationTime = DegreesAlong(res.steps) * 833
            /\ \A k \in 2..Len(res.steps) :
                  /\ res.steps[k].sector \in 0..359
                  /\ (res.steps[k].sector - res.steps[k - 1].sector + 360) % 360
                        \in 0..359

\* a policy has entered a boundary or jump entry, and has served a request
\* whose sector lies behind the current one
C18_Witness ==
    \E n \in 1..ran :
        /\ Len(out[n].sequence) > Len(out[n].steps)
        /\ \E k \in 3..Len(out[n].steps) :
              out[n].steps[k].sector < out[n].steps[k - 1].sector

\* C19: no call of a policy function changes the caller's request array:
\* across every step of a run its length, order and contents stay as they
\* were (sort, reverse and splice only ever work on copies).
C19_InputNotMutated == [][requests' = requests]_vars

\* all six policies have been called on a list that is not in cylinder
\* order, which a sort or a splice in place would have changed
C19_Witness ==
    /\ ran = 6
    /\ Len(requests) = 3
    /\ requests[1].cylinder > requests[2].cylinder
    /\ requests[1].cylinder >= initialHead

\* C20: when the six results are computed a second time from the unchanged
\* configuration, each is identical to the one of the first computation.
C20_RecomputationIdentical ==
    \A n \in 1..Len(out) :
        n > Len(ALGORITHMS) => out[n] = out[n - Len(ALGORITHMS)]

\* both computations are complete, on a list out of cylinder order with
\* requests on both sides of the head
C20_Witness ==
    /\ ran = Len(ALGORITHMS) + 1
    /\ Len(out) = 2 * Len(ALGORITHMS)
    /\ Len(requests) = 3
    /\ requests[1].cylinder > requests[2].cylinder
    /\ NumBelow >= 1
    /\ NumAbove >= 1

\* the last step of the playback: maxSteps counts the entries of the longest
\* sequence, the steps are numbered from 0
maxStep == maxSteps - 1

\* C21: play pressed while Idle at the last step rewinds currentStep to 0 and
\* enters Playing; play pressed while Idle before the last step enters
\* Playing with currentStep unchanged.
C21_PlayFromIdle ==
    [][(handlePlayPause /\ ~isPlaying /\ currentStep <= maxStep) =>
          /\ isPlaying'
          /\ currentStep' = (IF currentStep = maxStep THEN 0 ELSE currentStep)]_vars

\* Idle at the last step of a run that has more than one step, where play
\* has to rewind
C21_Witness ==
    /\ ~isPlaying
    /\ currentStep = maxStep
    /\ currentStep > 0
    /\ timer.kind = "none"

\* C22 as claimed: pause takes Playing to Idle and leaves currentStep as it
\* is, at every step at which the controller can be Playing, the last one
\* included.
C22_PauseKeepsStep ==
    [][(handlePlayPause /\ isPlaying) =>
          (~isPlaying' /\ currentStep' = currentStep)]_vars

\* C23: a tick while Playing before the last step adds exactly 1 to
\* currentStep and stays Playing; a tick while Playing at the last step
\* leaves currentStep and goes Idle; no tick changes currentStep while Idle.
C23_TimerTick ==
    [][(TimerAdvance \/ TimerStop) =>
          /\ (isPlaying /\ currentStep < maxStep) =>
                (currentStep' = currentStep + 1 /\ isPlaying')
          /\ (isPlaying /\ currentStep = maxStep) =>
                (currentStep' = currentStep /\ ~isPlaying')
          /\ ~isPlaying => currentStep' = currentStep]_vars

\* the ticks have brought a run of several steps to its last step and the
\* stop is pending
C23_Witness ==
    /\ isPlaying
    /\ currentStep = maxStep
    /\ currentStep > 1
    /\ timer.kind = "stop"

\* C24: reset, from Idle or Playing and from any step, leaves the controller
\* Idle at currentStep 0 and the run configuration as it was.
C24_ResetToIdleZero ==
    [][SkipBack => (~isPlaying' /\ currentStep' = 0 /\ config' = config)]_vars

\* Playing in the middle of a run, from where reset has both to stop and to
\* rewind
C24_Witness ==
    /\ isPlaying
    /\ 0 < currentStep
    /\ currentStep < maxStep
    /\ timer.kind = "advance"

\* C25 as claimed: the jump to the start sets currentStep to 0 and keeps the
\* play/pause mode: pressed while Playing the controller stays Playing.
C25_JumpStartKeepsMode ==
    [][SkipBack => (currentStep' = 0 /\ isPlaying' = isPlaying)]_vars

\* C26: in every reachable state 0 <= currentStep <= maxStep, maxStep being
\* the greatest sequence.length - 1 among the six results of the current
\* configuration.
C26_StepWithinBounds ==
    /\ 0 <= currentStep
    /\ \E k \in 1..Len(ALGORITHMS) :
          currentStep <= Len(Compute(ALGORITHMS[k], initialHead, requests,
                                     diskSize, direction).sequence) - 1
    /\ \A k \in 1..Len(ALGORITHMS) :
          Len(Compute(ALGORITHMS[k], initialHead, requests,
                      diskSize, direction).sequence) - 1 <= maxStep

\* the disk size was changed in the middle of a run, the one configuration
\* change that does not rewind, and the playback went on to the last step
C26_Witness ==
    /\ diskSize /= 200
    /\ currentStep = maxStep
    /\ currentStep > 1
    /\ isPlaying

\* the place of a policy in the declaration order
DeclarationIndex(name) == CHOOSE k \in 1..Len(ALGORITHMS) : ALGORITHMS[k] = name

\* C27: the ranking lists each of the six policies once, with its own
\* totals, ascending by totalOperationalTime; policies of equal time keep the
\* declaration order FCFS, SSTF, SCAN, C-SCAN, LOOK, C-LOOK; so the first
\* entry is a best policy and the last a worst one.
C27_RankingSortedStable ==
    LET md == metricsData
    IN  /\ Len(md) = Len(ALGORITHMS)
        /\ \A name \in AlgorithmNames :
              \E res \in {results[name]} :
                  \E i \in 1..Len(md) :
                      /\ md[i].name = name
                      /\ md[i].operationalTime = res.totalOperationalTime
                      /\ md[i].seekCount = res.totalSeekCount
        /\ \A i \in 1..Len(md) : \A j \in (i + 1)..Len(md) :
              \/ md[i].operationalTime < md[j].operationalTime
              \/ /\ md[i].operationalTime = md[j].operationalTime
                 /\ DeclarationIndex(md[i].name) < DeclarationIndex(md[j].name)

\* some policies tie and others do not, and the ranking is not the
\* declaration order
C27_Witness ==
    LET md == metricsData
    IN  /\ Len(requests) > 0
        /\ Len(md) = Len(ALGORITHMS)
        /\ \E i \in 1..(Len(md) - 1) : md[i].operationalTime = md[i + 1].operationalTime
        /\ md[1].operationalTime < md[Len(md)].operationalTime
        /\ md[1].name /= "FCFS"

\* C28: with an empty request list the summary is the fixed message and
\* names no policy; with a non-empty one it names the first entry of the
\* ranking as best.
C28_SummaryOfWorkload ==
    LET obs == observation
    IN  /\ Len(requests) = 0 =>
              /\ obs.awaiting
              /\ obs.best \notin AlgorithmNames
              /\ ~obs.fcfsPenalty
        /\ Len(requests) > 0 =>
              /\ ~obs.awaiting
              /\ obs.best = Head(metricsData).name

\* the list has been purged while a run was configured otherwise
C28_Witness ==
    /\ Len(requests) = 0
    /\ observation.awaiting
    /\ initialHead /= 50

\* C29: an insertion either leaves the request list, the step and the
\* play/pause mode as they were (the cylinder was not a number or lay
\* outside [0, diskSize)), or appends exactly one request at the end of the
\* list, whose cylinder is the offered one and lies inside [0, diskSize).
C29_InsertionRejectsOrAppends ==
    [][handleAddRequest =>
          \/ /\ requests' = requests
             /\ currentStep' = currentStep
             /\ isPlaying' = isPlaying
          \/ /\ Len(requests') = Len(requests) + 1
             /\ SubSeq(requests', 1, Len(requests)) = requests
             /\ \E val \in CylInputs :
                    /\ ~val.nan
                    /\ val.val >= 0
                    /\ val.val < diskSize
                    /\ requests'[Len(requests')].cylinder = val.val]_vars

\* a request at cylinder 0 has been appended behind another one, on a disk
\* so small that the other offered cylinders are out of range
C29_Witness ==
    /\ Len(requests) = 2
    /\ requests[2].id[1] = "req"
    /\ requests[2].cylinder = 0
    /\ requests[1].cylinder = 150
    /\ diskSize = 100

\* C30: in every configuration the operations can reach, every policy's
\* totalSeekCount is at least 0.
C30_SeekCountNonNegative ==
    \A name \in AlgorithmNames :
        \E res \in {results[name]} : res.totalSeekCount >= 0

\* C31 as claimed: the one pending timeout is always the one the playback
\* effect schedules for the present isPlaying, currentStep, maxSteps and
\* speed; a firing of the advance timeout happens while Playing and adds
\* exactly 1 to currentStep; and after a pause, a reset or a change of the
\* run configuration no advance is pending any more.
C31_SingleTimerNoStaleAdvance ==
    [][/\ timer' = PlaybackEffect(isPlaying', currentStep', maxSteps',
                                  playbackSpeed')
       /\ TimerAdvance => (isPlaying /\ currentStep' = currentStep + 1)
       /\ ((handlePlayPause /\ isPlaying) \/ SkipBack \/ config' /= config)
              => timer'.kind /= "advance"]_vars

\* the value of pending at every test of the while condition of SSTF, the
\* test that ends the loop included
RECURSIVE SSTFPending(_, _)
SSTFPending(currentCyl, pending) ==
    IF Len(pending) = 0 THEN <<pending>>
    ELSE LET c == Closest(pending, currentCyl)
         IN  <<pending>> \o SSTFPending(pending[c.closestIdx].cylinder,
                                        Splice(pending, c.closestIdx))

ResultFields ==
    {"sequence", "steps", "totalSeekCount", "averageSeekTime",
     "totalRotationTime", "totalOperationalTime"}

\* C32: on every valid configuration the SSTF loop starts from the whole
\* list, has exactly one pending request less at each iteration and ends
\* with nothing pending, after as many iterations as there are requests;
\* and every policy that has been applied has returned a Result, with every
\* field and with as many service steps as there are requests.
C32_PoliciesTerminate ==
    LET T == SSTFPending(initialHead, requests)
    IN  /\ Len(T) = Len(requests) + 1
        /\ Head(T) = requests
        /\ \A i \in 1..Len(requests) : Len(T[i + 1]) = Len(T[i]) - 1
        /\ T[Len(T)] = <<>>
        /\ \A k \in 1..Len(out) :
               \E res \in {out[k]} :
                   /\ DOMAIN res = ResultFields
                   /\ Len(res.steps) = Len(requests) + 1
                   /\ Len(res.sequence) >= Len(res.steps)
                   /\ res.totalSeekCount \in Nat

\* all six policies have returned on a list of the largest size, from which
\* SSTF first takes a request that is not the first of its pending list
C32_Witness ==
    /\ ran >= Len(ALGORITHMS)
    /\ Len(requests) = MaxReqs
    /\ Closest(requests, initialHead).closestIdx > 1
    /\ requests[1].cylinder /= initialHead

\* C33 as claimed: in every reachable state the requests of the run have
\* pairwise distinct ids, two insertions made at one clock value included.
C33_RequestIdsDistinct ==
    \A i, j \in 1..Len(requests) : i /= j => requests[i].id /= requests[j].id

\* C34: a playback that is left alone goes through the steps one by one,
\* stops only at the last step, does stop there, and once Idle is moved by
\* no timeout any more.
C34_PlaybackRunsToEnd ==
    /\ [][isPlaying =>
             \/ /\ isPlaying'
                /\ currentStep < maxStep
                /\ currentStep' = currentStep + 1
             \/ /\ ~isPlaying'
                /\ currentStep = maxStep
                /\ currentStep' = currentStep]_<<isPlaying, currentStep>>
    /\ [][~isPlaying => ~(TimerAdvance \/ TimerStop)]_vars
    /\ isPlaying ~> (~isPlaying /\ currentStep = maxStep)

\* a playback of several steps has run to its end and stopped there
C34_Witness ==
    /\ ~isPlaying
    /\ currentStep = maxStep
    /\ currentStep > 2
    /\ timer.kind = "none"

\* the configuration seen in a mirror: cylinder c becomes diskSize - 1 - c
Mirrored(reqs, size) ==
    [i \in 1..Len(reqs) |-> [reqs[i] EXCEPT !.cylinder = size - 1 - @]]

SweepNames == {"SCAN", "C-SCAN", "LOOK", "C-LOOK"}

\* C35 as claimed: SCAN, C-SCAN, LOOK and C-LOOK run with direction left
\* have the totalSeekCount of the run with direction right on the mirrored
\* configuration, requests on the head's own cylinder included.
C35_DirectionSymmetric ==
    \A k \in 1..Min(ran, Len(ALGORITHMS)) :
        (ALGORITHMS[k] \in SweepNames /\ direction = "left") =>
            out[k].totalSeekCount =
                Compute(ALGORITHMS[k], diskSize - 1 - initialHead,
                        Mirrored(requests, diskSize), diskSize,
                        "right").totalSeekCount

\* C36: on every valid configuration and in either direction LOOK's
\* totalSeekCount is at most SCAN's, the two being equal when SCAN inserts
\* no boundary entry, and C-LOOK's is at most C-SCAN's.
C36_LookNoLongerThanScan ==
    /\ (Computed("SCAN") /\ Computed("LOOK")) =>
           /\ ResultOf("LOOK").totalSeekCount <= ResultOf("SCAN").totalSeekCount
           /\ Len(ResultOf("SCAN").sequence) = Len(ResultOf("SCAN").steps) =>
                  ResultOf("LOOK").totalSeekCount = ResultOf("SCAN").totalSeekCount
    /\ (Computed("C-SCAN") /\ Computed("C-LOOK")) =>
           ResultOf("C-LOOK").totalSeekCount <= ResultOf("C-SCAN").totalSeekCount

\* all policies ran on a configuration with requests on both sides of the
\* head, where both boundary excursions cost something
C36_Witness ==
    /\ ran >= Len(ALGORITHMS)
    /\ NumBelow > 0
    /\ NumAbove > 0
    /\ ResultOf("LOOK").totalSeekCount < ResultOf("SCAN").totalSeekCount
    /\ ResultOf("C-LOOK").totalSeekCount < ResultOf("C-SCAN").totalSeekCount

NonDecreasing(s) == \A i \in 1..(Len(s) - 1) : s[i] <= s[i + 1]

NonIncreasing(s) == \A i \in 1..(Len(s) - 1) : s[i] >= s[i + 1]

\* the head moves one way up to entry t and the other way from there on
TurnsAt(seq, t, dir) ==
    IF dir = "right"
    THEN NonDecreasing(SubSeq(seq, 1, t)) /\ NonIncreasing(SubSeq(seq, t, Len(seq)))
    ELSE NonIncreasing(SubSeq(seq, 1, t)) /\ NonDecreasing(SubSeq(seq, t, Len(seq)))

\* C37: in the sequence of SCAN and of LOOK the head reverses at most once:
\* it moves in the configured direction up to a turning entry and in the
\* opposite direction from there to the end.
C37_SweepReversesOnce ==
    \A name \in {"SCAN", "LOOK"} :
        Computed(name) =>
            \E seq \in {ResultOf(name).sequence} :
                \E t \in 1..Len(seq) : TurnsAt(seq, t, direction)

\* SCAN and LOOK ran on a list of the largest size with requests on both
\* sides of the head, given neither in ascending nor in descending order,
\* so that both sequences do turn, inside the sequence
C37_Witness ==
    /\ ran >= Len(ALGORITHMS)
    /\ Len(requests) = MaxReqs
    /\ NumBelow > 0
    /\ NumAbove > 0
    /\ ~NonDecreasing([i \in 1..Len(requests) |-> requests[i].cylinder])
    /\ ~NonIncreasing([i \in 1..Len(requests) |-> requests[i].cylinder])
    /\ ~NonDecreasing(ResultOf("LOOK").sequence)
    /\ ~NonIncreasing(ResultOf("LOOK").sequence)

\* C38 as claimed: at every step inside the focused policy's sequence the
\* head position handed to the platter is the sequence entry of that step,
\* an entry of cylinder 0 included.
C38_PlatterShowsSequenceEntry ==
    \E seq \in {results[Focus].sequence} :
        currentStep < Len(seq) => headPos = seq[currentStep + 1]

\* C39: a change of the playback speed or of the focused policy leaves
\* currentStep, the play/pause mode, the run configuration and the six
\* Results as they were; the pending timeout stays of the same kind, and
\* only a change of speed gives it another delay.
C39_SpeedAndFocusFrame ==
    [][(SetPlaybackSpeed \/ SetSoloAlgo) =>
          /\ currentStep' = currentStep
          /\ isPlaying' = isPlaying
          /\ config' = config
          /\ \A name \in AlgorithmNames :
                 \E before \in {Compute(name, initialHead, requests,
                                        diskSize, direction)} :
                     \E after \in {Compute(name, initialHead', requests',
                                           diskSize', direction')} :
                         after = before
          /\ maxSteps' = maxSteps
          /\ timer'.kind = timer.kind
          /\ playbackSpeed' = playbackSpeed => timer' = timer]_vars

\* playing in the middle of a run at a speed and with a focus that are not
\* the initial ones
C39_Witness ==
    /\ isPlaying
    /\ currentStep > 0
    /\ currentStep < maxStep
    /\ playbackSpeed = 8
    /\ soloAlgo = "C-SCAN"
    /\ timer = [kind |-> "advance", delay |-> 200]

====
